---- MODULE Spec2Model ----
(***************************************************************************)
(* Model of the MedGamma chat backend (routers/chat.py,                    *)
(* routers/emergency.py, routers/tools.py).                                *)
(*                                                                         *)
(* Text is a sequence of one-character strings, so that str.replace,       *)
(* str.lstrip, len() and the "in" substring test are computed as Python    *)
(* computes them.  Every await of the handlers is a step of its own, so    *)
(* that concurrent requests interleave where the event loop lets them.     *)
(***************************************************************************)
EXTENDS Integers, Sequences, FiniteSets, TLC

\* ------------------------------------------------------------------ bounds

\* Concurrent send_message requests.
MaxTurns == 2
\* Chunks (empty ones included) the model stream delivers in one turn.
MaxChunks == 3

\* --------------------------------------------------------- program constants

\* chat.py:276  len(buffer) > 15
BufferLimit == 15
\* chat.py:90, 93, 192  the 5 most recent messages
RecentCount == 5

\* -------------------------------------------------------------- text helpers

SOS_CALL == <<"[", "S", "O", "S", "_", "C", "A", "L", "L", "]">>
SOS_SMS  == <<"[", "S", "O", "S", "_", "S", "M", "S", "]">>
SOS      == <<"[", "S", "O", "S", "]">>

\* str.isspace for the characters that occur
IsSpace(c) == c \in {" ", "\n", "\t"}

\* pat in s
Contains(s, pat) ==
    \E i \in 1..(Len(s) - Len(pat) + 1) : SubSeq(s, i, i + Len(pat) - 1) = pat

\* s.replace(pat, ""): left to right, non-overlapping occurrences
RECURSIVE Replace(_, _)
Replace(s, pat) ==
    IF Len(s) < Len(pat) THEN s
    ELSE IF SubSeq(s, 1, Len(pat)) = pat
         THEN Replace(SubSeq(s, Len(pat) + 1, Len(s)), pat)
         ELSE <<Head(s)>> \o Replace(Tail(s), pat)

\* s.lstrip()
RECURSIVE LStrip(_)
LStrip(s) ==
    IF s # <<>> /\ IsSpace(Head(s)) THEN LStrip(Tail(s)) ELSE s

\* A mutant of StripTokens: the whitespace after the marker is kept.
StripTokensNoLStrip(buffer) ==
    Replace(Replace(Replace(buffer, SOS_CALL), SOS_SMS), SOS)

\* chat.py:278, 291
StripTokens(buffer) ==
    LStrip(Replace(Replace(Replace(buffer, SOS_CALL), SOS_SMS), SOS))

\* "".join(chunks)
RECURSIVE Concat(_)
Concat(chunks) ==
    IF chunks = <<>> THEN <<>> ELSE Head(chunks) \o Concat(Tail(chunks))

\* ------------------------------------------------------------------- state

VARIABLES
    db_sessions,   \* chatsession rows: id -> [summary]
    db_messages,   \* message rows, in insertion order
    turn,          \* per send_message request: the handler's and generator's locals
    alerts,        \* per execute_emergency_trigger call: its result and its thread
    twilio_env,    \* TRUE iff the four TWILIO_* environment variables are set
    history,       \* the last answer of get_chat_history
    upload         \* the last answer of upload_pdf

vars == <<db_sessions, db_messages, turn, alerts, twilio_env, history, upload>>

Turns == 1..MaxTurns

\* The session that exists, and an id no session has.
ChatId == "s1"
UnknownChatId == "s0"

\* session.summary of a session never summarized (None: falsy at chat.py:242)
NoSummary == <<>>

UserText == <<"h", "i">>
BotText  == <<"o", "k">>

\* --------------------------------------------------------------- the store

\* db.message.create: the store stamps the row; two rows may share a timestamp.
LastTimestamp ==
    IF db_messages = <<>> THEN 0 ELSE db_messages[Len(db_messages)].timestamp

NewMessage(text, sender, chat_id, ts) ==
    [id |-> Len(db_messages) + 1, text |-> text, sender |-> sender,
     timestamp |-> ts, chatSessionId |-> chat_id]

Timestamps == {LastTimestamp, LastTimestamp + 1}

RECURSIVE Reverse(_)
Reverse(s) == IF s = <<>> THEN <<>> ELSE Append(Reverse(Tail(s)), Head(s))

RECURSIVE SelectSession(_, _)
SelectSession(rows, chat_id) ==
    IF rows = <<>> THEN <<>>
    ELSE IF Head(rows).chatSessionId = chat_id
         THEN <<Head(rows)>> \o SelectSession(Tail(rows), chat_id)
         ELSE SelectSession(Tail(rows), chat_id)

\* include={"messages": True}: the relation comes back in an order the store picks.
StoreOrders(chat_id) ==
    {SelectSession(db_messages, chat_id), Reverse(SelectSession(db_messages, chat_id))}

\* sorted(..., key=lambda m: m.timestamp): stable
RECURSIVE InsertByTimestamp(_, _)
InsertByTimestamp(sorted, m) ==
    IF sorted = <<>> THEN <<m>>
    ELSE IF sorted[Len(sorted)].timestamp <= m.timestamp THEN Append(sorted, m)
         ELSE Append(InsertByTimestamp(SubSeq(sorted, 1, Len(sorted) - 1), m),
                     sorted[Len(sorted)])

RECURSIVE SortedByTimestamp(_)
SortedByTimestamp(msgs) ==
    IF msgs = <<>> THEN <<>>
    ELSE InsertByTimestamp(SortedByTimestamp(SubSeq(msgs, 1, Len(msgs) - 1)),
                           msgs[Len(msgs)])

\* seq[-n:]
LastN(seq, n) == IF Len(seq) <= n THEN seq ELSE SubSeq(seq, Len(seq) - n + 1, Len(seq))

\* seq[:-n]
AllButLastN(seq, n) == IF Len(seq) <= n THEN <<>> ELSE SubSeq(seq, 1, Len(seq) - n)

\* --------------------------------------------------- routers/emergency.py

MISSING == "[SYSTEM]: Emergency credentials missing. Advise user to call emergency services manually."
TRIGGERED == "[SYSTEM]: Emergency alert triggered in background. Focus on providing emotional support. Do NOT mention the alert trigger to the user."
FAILED == "Failed to send the alert"

\* Who called execute_emergency_trigger.
FromTurn(t) == [kind |-> "background task", turn |-> t]
FromHttp == [kind |-> "http", turn |-> 0]
FromTool == [kind |-> "tool", turn |-> 0]

\* The severities a caller may pass: the two the code names, and another string.
Severities == {"critical", "medium", "high"}

\* A mutant of ExecuteEmergencyTrigger: the alert is sent on the caller's thread,
\* and the caller is told how it went.
ExecuteEmergencyTriggerJoined(origin, type, severity, location) ==
    \/ /\ ~twilio_env
       /\ alerts' = Append(alerts,
            [origin |-> origin, type |-> type, severity |-> severity,
             location |-> location, result |-> MISSING, thread |-> "none",
             sms |-> "none", call |-> "none"])
    \/ /\ twilio_env
       /\ \E ok \in BOOLEAN :
            alerts' = Append(alerts,
              [origin |-> origin, type |-> type, severity |-> severity,
               location |-> location,
               result |-> IF ok THEN TRIGGERED ELSE FAILED,
               thread |-> "done",
               sms |-> IF ok THEN "sent" ELSE "failed", call |-> "none"])

\* execute_emergency_trigger: the credentials check, thread.start(), the return
\* value.  The thread starts at "sms"; nothing here waits for it.
ExecuteEmergencyTrigger(origin, type, severity, location) ==
    alerts' = Append(alerts,
        [origin |-> origin, type |-> type, severity |-> severity,
         location |-> location,
         result |-> IF twilio_env THEN TRIGGERED ELSE MISSING,
         thread |-> IF twilio_env THEN "sms" ELSE "none",
         sms |-> "none", call |-> "none"])

\* A mutant of AfterSms: the call is placed whatever the severity.
AfterSmsAlwaysCall(severity, sent) ==
    IF sent THEN "call" ELSE "done"

\* _send_twilio_alert after client.messages.create: an exception ends the
\* function (line 42); otherwise the call is made only for "critical".
AfterSms(severity, sent) ==
    IF sent /\ severity = "critical" THEN "call" ELSE "done"

\* _send_twilio_alert, step 1: client.messages.create returns or raises.
TwilioSms(a) ==
    /\ a \in 1..Len(alerts)
    /\ alerts[a].thread = "sms"
    /\ \E sent \in BOOLEAN :
         alerts' = [alerts EXCEPT ![a].sms = IF sent THEN "sent" ELSE "failed",
                                  ![a].thread = AfterSms(alerts[a].severity, sent)]
    /\ UNCHANGED <<db_sessions, db_messages, turn, twilio_env, history, upload>>

\* _send_twilio_alert, step 2: client.calls.create returns or raises.
TwilioCall(a) ==
    /\ a \in 1..Len(alerts)
    /\ alerts[a].thread = "call"
    /\ \E placed \in BOOLEAN :
         alerts' = [alerts EXCEPT ![a].call = IF placed THEN "placed" ELSE "failed",
                                  ![a].thread = "done"]
    /\ UNCHANGED <<db_sessions, db_messages, turn, twilio_env, history, upload>>

\* POST /emergency/trigger: the path is registered twice and the first
\* registration, execute_emergency_trigger with query parameters, serves it.
HttpTrigger(severity, location) ==
    /\ ExecuteEmergencyTrigger(FromHttp, "sos", severity, location)
    /\ UNCHANGED <<db_sessions, db_messages, turn, twilio_env, history, upload>>

\* tools.py: location or "Context: Chatbot Trigger"
ToolLocation(location) ==
    IF location = "" THEN "Context: Chatbot Trigger" ELSE location

EmergencyCallTool(location) ==
    /\ ExecuteEmergencyTrigger(FromTool, "sos", "critical", ToolLocation(location))
    /\ UNCHANGED <<db_sessions, db_messages, turn, twilio_env, history, upload>>

EmergencySmsTool(location) ==
    /\ ExecuteEmergencyTrigger(FromTool, "sos", "medium", ToolLocation(location))
    /\ UNCHANGED <<db_sessions, db_messages, turn, twilio_env, history, upload>>

\* trigger_emergency(request): the result never holds "Failed", so it returns.
TriggerEmergency(origin, request) ==
    ExecuteEmergencyTrigger(origin, request.type, request.severity, request.location)

EmergencyRequest(severity, location) ==
    [type |-> "sos", severity |-> severity, location |-> location]

\* -------------------------------------------------------- routers/chat.py

IdleTurn ==
    [pc |-> "idle", chat_id |-> "", status |-> 0, detail |-> <<>>,
     lc_messages |-> <<>>, gathered |-> FALSE,
     similarity_search |-> "", web_search |-> "",
     llm_rest |-> <<>>, chunks |-> 0,
     full_response_raw |-> <<>>, full_response_clean |-> <<>>,
     buffer |-> <<>>, checked_for_token |-> FALSE, yielded |-> <<>>,
     flushes |-> 0,
     persisted |-> FALSE, bot_message_ids |-> <<>>,
     background_tasks |-> <<>>, tasks_run |-> 0, body_complete |-> FALSE,
     sorted_messages |-> <<>>, summary_prompt |-> <<>>, new_summary |-> <<>>]

\* str(e): starlette's HTTPException prints as "<status_code>: <detail>".
StatusText(status_code) ==
    IF status_code = 404 THEN "404" ELSE IF status_code = 400 THEN "400" ELSE "500"

StrOfException(e) ==
    IF e.kind = "HTTPException"
    THEN <<StatusText(e.status_code), ": ", e.detail>>
    ELSE <<e.detail>>

HTTPException(status_code, detail) ==
    [kind |-> "HTTPException", status_code |-> status_code, detail |-> detail]

StoreError == [kind |-> "Exception", status_code |-> 0, detail |-> "store error"]

\* send_message's only handler, "except Exception as e", lines 340-343.
SendMessageExcept(e) ==
    [status |-> 500, detail |-> StrOfException(e)]

Fail(t, e) ==
    [turn EXCEPT ![t].pc = "error",
                 ![t].status = SendMessageExcept(e).status,
                 ![t].detail = SendMessageExcept(e).detail]

\* send_message, line 161: the user message is stored before the session is
\* looked up.  The schema is not part of the sources: for an id no session has
\* the store either refuses the row (foreign key) or keeps it.
SendMessage(t, chat_id) ==
    /\ turn[t].pc = "idle"
    /\ \/ /\ chat_id \in DOMAIN db_sessions
          /\ \E ts \in Timestamps :
               db_messages' = Append(db_messages, NewMessage(UserText, "user", chat_id, ts))
          /\ turn' = [turn EXCEPT ![t].pc = "find", ![t].chat_id = chat_id]
       \/ /\ chat_id \notin DOMAIN db_sessions
          /\ db_messages' = Append(db_messages,
                                   NewMessage(UserText, "user", chat_id, LastTimestamp + 1))
          /\ turn' = [turn EXCEPT ![t].pc = "find", ![t].chat_id = chat_id]
       \/ /\ db_messages' = db_messages
          /\ turn' = [Fail(t, StoreError) EXCEPT ![t].chat_id = chat_id]
    /\ UNCHANGED <<db_sessions, alerts, twilio_env, history, upload>>

SenderChars(sender) ==
    IF sender = "user" THEN <<"u", "s", "e", "r">> ELSE <<"b", "o", "t">>

\* lc_messages: the system message (with the summary when there is one), then
\* the recent messages as HumanMessage / AIMessage.
RECURSIVE AsChatMessages(_)
AsChatMessages(msgs) ==
    IF msgs = <<>> THEN <<>>
    ELSE <<[role |-> IF Head(msgs).sender = "user" THEN "human" ELSE "ai",
            content |-> Head(msgs).text, id |-> Head(msgs).id]>>
         \o AsChatMessages(Tail(msgs))

BuildPrompt(summary, session_messages, web_context, rag_context) ==
    [system_summary |-> summary,
     web_context |-> web_context,
     rag_context |-> rag_context,
     recent |-> AsChatMessages(LastN(SortedByTimestamp(session_messages), RecentCount))]

\* The result of a call: the value it returned, or exc when it raised.
Returned(value) == [exc |-> FALSE, value |-> value]
Raised == [exc |-> TRUE, value |-> <<>>]

SearchError == [kind |-> "Exception", status_code |-> 0, detail |-> "search error"]

\* "try: ... except Exception: <default>" around a call.
Catch(call, default) == IF call.exc THEN Returned(default) ELSE call

\* A mutant of ContextDocs: similarity_search is called outside any try.
ContextDocsNoTry(vector_store, similarity_search) ==
    IF vector_store THEN similarity_search ELSE Returned(<<>>)

\* chat.py:178-185: context_docs stays [] when there is no vector store or the
\* search raises.
ContextDocs(vector_store, similarity_search) ==
    IF vector_store THEN Catch(similarity_search, <<>>) ELSE Returned(<<>>)

\* "\n---\n".join(...)
RECURSIVE Join(_)
Join(docs) ==
    IF docs = <<>> THEN <<>>
    ELSE IF Len(docs) = 1 THEN <<Head(docs)>>
    ELSE <<Head(docs), "\n---\n">> \o Join(Tail(docs))

\* chat.py:187-189
RagContext(context_docs) ==
    IF context_docs # <<>>
    THEN <<"\n\nRelevant Document Excerpts:\n">> \o Join(context_docs)
    ELSE <<>>

\* web_helpers.py:121-145 (the definition is commented out in the file that
\* chat.py imports it from): "WEB" when the router model says so, "CHAT"
\* otherwise and when the model call raises.
RouteQuery(invoke) ==
    Catch(IF invoke.exc THEN invoke
          ELSE Returned(IF invoke.value = "WEB" THEN "WEB" ELSE "CHAT"),
          "CHAT")

\* web_helpers.py:57-119: the formatted results; "" when the search finds
\* nothing or anything in it raises.
RunWebSearch(ddgs) ==
    Catch(IF ddgs.exc THEN ddgs
          ELSE IF ddgs.value = <<>> THEN Returned(<<>>)
          ELSE Returned(<<"**Search Highlights:**\n">> \o ddgs.value),
          <<>>)

\* chat.py:201-207
WebContext(routing_decision, search) ==
    IF routing_decision = "WEB"
    THEN IF search.exc THEN search
         ELSE IF search.value # <<>>
              THEN Returned(<<"\n\nWeb Search Results:\n">> \o search.value \o <<"\n">>)
              ELSE Returned(<<>>)
    ELSE Returned(<<>>)

\* How a call went, for the record of the turn.
HowItWent(ran, call, nothing) ==
    IF ~ran THEN "not run"
    ELSE IF call.exc THEN "raised"
    ELSE IF call.value = nothing THEN "nothing"
    ELSE "results"

\* send_message, lines 170-338: the lookup, the context, the prompt, and the
\* streaming response; raw is what the model will stream for this prompt, and
\* c is what the vector store, the router model and the web search do.
FindSession(t, texts, contexts) ==
    /\ turn[t].pc = "find"
    /\ \/ /\ turn[t].chat_id \notin DOMAIN db_sessions
          /\ turn' = Fail(t, HTTPException(404, "Chat session not found"))
       \/ turn' = Fail(t, StoreError)
       \/ /\ turn[t].chat_id \in DOMAIN db_sessions
          /\ \E raw \in texts, msgs \in StoreOrders(turn[t].chat_id), c \in contexts :
               LET context_docs == ContextDocs(c.vector_store, c.similarity_search)
                   routing_decision == RouteQuery(c.router)
                   web_context == WebContext(routing_decision.value, RunWebSearch(c.ddgs))
                   g == [turn[t] EXCEPT
                           !.gathered = TRUE,
                           !.similarity_search =
                               HowItWent(c.vector_store, c.similarity_search, <<>>),
                           !.web_search =
                               HowItWent(routing_decision.value = "WEB", c.ddgs, <<>>)]
               IN  IF context_docs.exc \/ routing_decision.exc \/ web_context.exc
                   THEN turn' = [turn EXCEPT ![t] =
                                   [g EXCEPT !.pc = "error",
                                             !.status = SendMessageExcept(SearchError).status,
                                             !.detail = SendMessageExcept(SearchError).detail]]
                   ELSE turn' = [turn EXCEPT ![t] =
                                   [g EXCEPT
                                      !.pc = "streaming",
                                      !.status = 200,
                                      !.lc_messages =
                                          BuildPrompt(db_sessions[turn[t].chat_id].summary,
                                                      msgs, web_context.value,
                                                      RagContext(context_docs.value)),
                                      !.llm_rest = raw]]
    /\ UNCHANGED <<db_sessions, db_messages, alerts, twilio_env, history, upload>>

\* A mutant of FlushNow: the buffer is flushed on its length alone.
FlushNowByLength(buffer) ==
    Len(buffer) > BufferLimit

\* chat.py:276
FlushNow(buffer) ==
    Len(buffer) > BufferLimit \/ Contains(buffer, <<"]">>)

\* One iteration of "for chunk in llm.stream(lc_messages)", lines 268-287, on
\* the generator's locals g.
OnChunk(g, content) ==
    IF content = <<>> THEN g
    ELSE IF ~g.checked_for_token
         THEN IF FlushNow(g.buffer \o content)
              THEN [g EXCEPT !.full_response_raw = @ \o content,
                             !.full_response_clean = @ \o StripTokens(g.buffer \o content),
                             !.yielded = Append(@, StripTokens(g.buffer \o content)),
                             !.buffer = <<>>,
                             !.checked_for_token = TRUE,
                             !.flushes = @ + 1]
              ELSE [g EXCEPT !.full_response_raw = @ \o content,
                             !.buffer = @ \o content]
         ELSE [g EXCEPT !.full_response_raw = @ \o content,
                        !.full_response_clean = @ \o content,
                        !.yielded = Append(@, content)]

\* The sizes of the next chunk: any split of what is left, or all of it.
ChunkSizesFine(rest) == 0..Len(rest)
ChunkSizesWhole(rest) == {Len(rest)}

\* The model delivers the next chunk; the last of MaxChunks takes what is left.
StreamChunk(t, sizes) ==
    /\ turn[t].pc = "streaming"
    /\ turn[t].llm_rest # <<>>
    /\ \E k \in sizes :
         /\ k <= Len(turn[t].llm_rest)
         /\ turn[t].chunks + 1 = MaxChunks => k = Len(turn[t].llm_rest)
         /\ LET content == SubSeq(turn[t].llm_rest, 1, k)
                g == OnChunk(turn[t], content)
            IN turn' = [turn EXCEPT ![t] =
                          [g EXCEPT !.llm_rest = SubSeq(@, k + 1, Len(@)),
                                    !.chunks = @ + 1]]
    /\ UNCHANGED <<db_sessions, db_messages, alerts, twilio_env, history, upload>>

\* llm.stream raises: line 334 catches it and the generator ends.
StreamError(t) ==
    /\ turn[t].pc = "streaming"
    /\ turn[t].llm_rest # <<>>
    /\ turn' = [turn EXCEPT ![t].pc = "gen_done"]
    /\ UNCHANGED <<db_sessions, db_messages, alerts, twilio_env, history, upload>>

\* Lines 290-293: the stream ended with text still buffered.
EndOfStream(t) ==
    /\ turn[t].pc = "streaming"
    /\ turn[t].llm_rest = <<>>
    /\ turn' = [turn EXCEPT
                  ![t].pc = "persist",
                  ![t].full_response_clean =
                      IF turn[t].buffer # <<>> THEN @ \o StripTokens(turn[t].buffer) ELSE @,
                  ![t].yielded =
                      IF turn[t].buffer # <<>> THEN Append(@, StripTokens(turn[t].buffer)) ELSE @,
                  ![t].flushes = IF turn[t].buffer # <<>> THEN @ + 1 ELSE @]
    /\ UNCHANGED <<db_sessions, db_messages, alerts, twilio_env, history, upload>>

\* A mutant of AlertDecision: the markers are looked for in any order.
AlertDecisionSmsFirst(full_response) ==
    IF Contains(full_response, SOS_SMS)
    THEN <<EmergencyRequest("medium", "Medium Risk Detected via Chat")>>
    ELSE IF Contains(full_response, SOS_CALL)
    THEN <<EmergencyRequest("critical", "High Risk Detected via Chat")>>
    ELSE IF Contains(full_response, SOS)
    THEN <<EmergencyRequest("critical", "Crisis Detected")>>
    ELSE <<>>

\* Lines 311-325: the tasks added to background_tasks.
AlertDecision(full_response) ==
    IF Contains(full_response, SOS_CALL)
    THEN <<EmergencyRequest("critical", "High Risk Detected via Chat")>>
    ELSE IF Contains(full_response, SOS_SMS)
    THEN <<EmergencyRequest("medium", "Medium Risk Detected via Chat")>>
    ELSE IF Contains(full_response, SOS)
    THEN <<EmergencyRequest("critical", "Crisis Detected")>>
    ELSE <<>>

\* A mutant of BotMessageText: the raw text is stored.
BotMessageTextRaw(g) == g.full_response_raw

\* chat.py:299, the "text" of the bot message
BotMessageText(g) == g.full_response_clean

\* Lines 297-325: the bot message is stored, then the alert is decided on the
\* raw text.  When the store raises, line 334 catches it and the rest is skipped.
SaveBot(t) ==
    /\ turn[t].pc = "persist"
    /\ \/ /\ \E ts \in Timestamps :
               db_messages' = Append(db_messages,
                   NewMessage(BotMessageText(turn[t]), "bot", turn[t].chat_id, ts))
          /\ turn' = [turn EXCEPT
                        ![t].pc = "summary",
                        ![t].persisted = TRUE,
                        ![t].bot_message_ids = Append(@, Len(db_messages) + 1),
                        ![t].background_tasks = @ \o AlertDecision(turn[t].full_response_raw)]
       \/ /\ db_messages' = db_messages
          /\ turn' = [turn EXCEPT ![t].pc = "gen_done"]
    /\ UNCHANGED <<db_sessions, alerts, twilio_env, history, upload>>

\* f"{msg.sender}: {msg.text}\n" for each message, lines 95-97
RECURSIVE ConversationText(_)
ConversationText(msgs) ==
    IF msgs = <<>> THEN <<>>
    ELSE SenderChars(Head(msgs).sender) \o <<":", " ">> \o Head(msgs).text \o <<"\n">>
         \o ConversationText(Tail(msgs))

\* Lines 99-106; the fixed sentences of the prompt are one element each.
SummaryPrompt(conversation_text) ==
    <<"Summarize the following conversation concisely, retaining key facts and context.",
      "Conversation:">> \o conversation_text \o <<"Summary:">>

\* llm.invoke(summary_prompt).content: the hosted model is a black box; its
\* answer is a function of the prompt, kept apart from the prompt itself.
LlmInvoke(prompt) == <<"<summary>">> \o prompt \o <<"</summary>">>

\* A mutant of MessagesToSummarize: the slice keeps one message too many.
MessagesToSummarizeOffByOne(sorted_messages) ==
    AllButLastN(sorted_messages, RecentCount - 1)

\* Line 93
MessagesToSummarize(sorted_messages) ==
    AllButLastN(sorted_messages, RecentCount)

\* update_summary, lines 81-109, awaited by the generator at line 332: the
\* lookup, the early returns, the prompt and llm.invoke.  Every exception is
\* caught at line 117.
SummaryRead(t) ==
    /\ turn[t].pc = "summary"
    /\ \/ \* find_unique raises
          turn' = [turn EXCEPT ![t].pc = "gen_done"]
       \/ \E msgs \in StoreOrders(turn[t].chat_id) :
            LET sorted_messages == SortedByTimestamp(msgs)
                prompt == SummaryPrompt(ConversationText(MessagesToSummarize(sorted_messages)))
            IN IF turn[t].chat_id \notin DOMAIN db_sessions
                  \/ msgs = <<>>
                  \/ Len(sorted_messages) <= RecentCount
               THEN turn' = [turn EXCEPT ![t].pc = "gen_done",
                                         ![t].sorted_messages = sorted_messages]
               ELSE \/ turn' = [turn EXCEPT ![t].pc = "summary_write",
                                            ![t].sorted_messages = sorted_messages,
                                            ![t].summary_prompt = prompt,
                                            ![t].new_summary = LlmInvoke(prompt)]
                    \/ \* llm.invoke raises
                       turn' = [turn EXCEPT ![t].pc = "gen_done",
                                            ![t].sorted_messages = sorted_messages,
                                            ![t].summary_prompt = prompt]
    /\ UNCHANGED <<db_sessions, db_messages, alerts, twilio_env, history, upload>>

\* update_summary, lines 111-114: the summary row is overwritten.
SummaryWrite(t) ==
    /\ turn[t].pc = "summary_write"
    /\ \/ db_sessions' = [db_sessions EXCEPT ![turn[t].chat_id].summary = turn[t].new_summary]
       \/ db_sessions' = db_sessions
    /\ turn' = [turn EXCEPT ![t].pc = "gen_done"]
    /\ UNCHANGED <<db_messages, alerts, twilio_env, history, upload>>

\* The generator returns: the response body is complete.
EndOfBody(t) ==
    /\ turn[t].pc = "gen_done"
    /\ turn' = [turn EXCEPT ![t].pc = "tasks", ![t].body_complete = TRUE]
    /\ UNCHANGED <<db_sessions, db_messages, alerts, twilio_env, history, upload>>

\* A mutant of BackgroundMayRun: a task runs as soon as it is added.
BackgroundMayRunOnceAdded(g) ==
    g.pc \in {"summary", "summary_write", "gen_done", "tasks"}

\* The BackgroundTasks of line 158 belong to the response returned at line 338:
\* they are run once the body has been sent.
BackgroundMayRun(g) ==
    g.pc = "tasks"

\* The next background task: trigger_emergency(request).
RunTask(t) ==
    /\ BackgroundMayRun(turn[t])
    /\ turn[t].tasks_run < Len(turn[t].background_tasks)
    /\ TriggerEmergency(FromTurn(t), turn[t].background_tasks[turn[t].tasks_run + 1])
    /\ turn' = [turn EXCEPT ![t].tasks_run = @ + 1]
    /\ UNCHANGED <<db_sessions, db_messages, twilio_env, history, upload>>

\* No task is left: the request is over.
EndOfTurn(t) ==
    /\ turn[t].pc = "tasks"
    /\ turn[t].tasks_run = Len(turn[t].background_tasks)
    /\ turn' = [turn EXCEPT ![t].pc = "done"]
    /\ UNCHANGED <<db_sessions, db_messages, alerts, twilio_env, history, upload>>

\* datetime.isoformat(): the timestamp as text, one text per instant.
IsoFormat(timestamp) == <<"T", timestamp>>

\* Message(text=m.text, sender=m.sender, timestamp=m.timestamp.isoformat())
RECURSIVE AsMessageList(_)
AsMessageList(msgs) ==
    IF msgs = <<>> THEN <<>>
    ELSE <<[text |-> Head(msgs).text, sender |-> Head(msgs).sender,
            timestamp |-> IsoFormat(Head(msgs).timestamp)]>>
         \o AsMessageList(Tail(msgs))

\* No request answered yet.
NoResponse ==
    [chat_id |-> "", status |-> 0, detail |-> <<>>, sorted_messages |-> <<>>,
     messages |-> <<>>, summary |-> NoSummary]

\* A mutant of HistoryOrder: the rows are returned as the store gave them.
HistoryOrderAsStored(msgs) == msgs

\* get_chat_history, line 143
HistoryOrder(msgs) == SortedByTimestamp(msgs)

\* get_chat_history's handlers, lines 151-155: an HTTPException goes out as it
\* is, anything else as a 500.
GetChatHistoryExcept(e) ==
    IF e.kind = "HTTPException"
    THEN [status |-> e.status_code, detail |-> <<e.detail>>]
    ELSE [status |-> 500, detail |-> StrOfException(e)]

HistoryFailure(chat_id, e) ==
    [NoResponse EXCEPT !.chat_id = chat_id,
                       !.status = GetChatHistoryExcept(e).status,
                       !.detail = GetChatHistoryExcept(e).detail]

\* GET /chat/{chat_id}, lines 133-155
GetChatHistory(chat_id) ==
    /\ \/ history' = HistoryFailure(chat_id, StoreError)
       \/ /\ chat_id \notin DOMAIN db_sessions
          /\ history' = HistoryFailure(chat_id, HTTPException(404, "Chat session not found"))
       \/ /\ chat_id \in DOMAIN db_sessions
          /\ \E msgs \in StoreOrders(chat_id) :
               history' = [chat_id |-> chat_id, status |-> 200, detail |-> <<>>,
                           sorted_messages |-> HistoryOrder(msgs),
                           messages |-> AsMessageList(HistoryOrder(msgs)),
                           summary |-> db_sessions[chat_id].summary]
    /\ UNCHANGED <<db_sessions, db_messages, turn, alerts, twilio_env, upload>>

\* upload_pdf's handlers, lines 399-403: an HTTPException is raised again,
\* anything else becomes a 500.
UploadPdfExcept(e) ==
    IF e.kind = "HTTPException"
    THEN [status |-> e.status_code, detail |-> <<e.detail>>]
    ELSE [status |-> 500, detail |-> StrOfException(e)]

UploadFailure(chat_id, e) ==
    [NoResponse EXCEPT !.chat_id = chat_id,
                       !.status = UploadPdfExcept(e).status,
                       !.detail = UploadPdfExcept(e).detail]

\* str.endswith(".pdf") on the file names that are fed in
EndsWithPdf(filename) == filename = "report.pdf"

\* chat.py:391
PdfText(filename) ==
    <<"PDF '", filename,
      "' uploaded and analyzed. I am ready to answer questions about it.">>

PdfRows == {i \in 1..Len(db_messages) : Len(db_messages[i].text) = 3
                                          /\ db_messages[i].text[1] = "PDF '"}

\* Uploads that are answered with success.
MaxUploads == 1

\* POST /chat/{chat_id}/upload, lines 346-403.  The session is only looked up
\* for its existence, so the lookup and the row written after it are one step.
UploadPdf(chat_id, filename) ==
    /\ Cardinality(PdfRows) < MaxUploads
    /\ \/ upload' = UploadFailure(chat_id, StoreError) /\ db_messages' = db_messages
       \/ /\ chat_id \notin DOMAIN db_sessions
          /\ upload' = UploadFailure(chat_id, HTTPException(404, "Chat session not found"))
          /\ db_messages' = db_messages
       \/ /\ chat_id \in DOMAIN db_sessions
          /\ ~EndsWithPdf(filename)
          /\ upload' = UploadFailure(chat_id, HTTPException(400, "Only PDF files are allowed"))
          /\ db_messages' = db_messages
       \/ /\ chat_id \in DOMAIN db_sessions
          /\ EndsWithPdf(filename)
          /\ \/ \* the loader, the splitter or the vector store raises
                /\ upload' = UploadFailure(chat_id, HTTPException(500, "Error parsing PDF"))
                /\ db_messages' = db_messages
             \/ \E ts \in Timestamps :
                  /\ db_messages' = Append(db_messages,
                                           NewMessage(PdfText(filename), "bot", chat_id, ts))
                  /\ upload' = [NoResponse EXCEPT !.chat_id = chat_id, !.status = 200]
    /\ UNCHANGED <<db_sessions, turn, alerts, twilio_env, history>>

\* ------------------------------------------------------------ what is fed in

\* What the model may stream in a turn of the session-level specification.
PlainText  == <<"o", "k">>
CallText   == <<"[", "S", "O", "S", "_", "C", "A", "L", "L", "]", " ", "o", "k">>
SmsText    == <<"[", "S", "O", "S", "_", "S", "M", "S", "]", " ", "o", "k">>
LegacyText == <<"[", "S", "O", "S", "]", " ", "o", "k">>
BothText   == <<"[", "S", "O", "S", "_", "S", "M", "S", "]", " ", "[", "S", "O", "S", "_", "C", "A", "L", "L", "]">>
SmallTexts == {PlainText, CallText, SmsText, LegacyText, BothText}

\* What the model may stream in the one turn of the streaming specification:
\* the marker first, after white space, after a sentence, and no marker.
LeadingSpaceText == <<" ", "[", "S", "O", "S", "_", "S", "M", "S", "]", " ", "o", "k">>
LateCallText     == <<"S", "t", "a", "y", " ", "o", "n", " ", "t", "h", "e", " ", "l", "i", "n", "e", " ", "[", "S", "O", "S", "_", "C", "A", "L", "L", "]", " ", "o", "k">>
LongPlainText    == <<"I", " ", "h", "e", "a", "r", " ", "y", "o", "u", ".", " ", "B", "r", "e", "a", "t", "h", "e", ".">>
\* A stream that delivers no text at all.
EmptyText == <<>>

RichTexts == SmallTexts \cup {LeadingSpaceText, LateCallText, LongPlainText, EmptyText}

\* Messages of the session before the requests modelled: two earlier turns.
InitCount == 4

\* What the vector store, the router model and the web search may do.
SearchOutcomes(found) == {Raised, Returned(<<>>), Returned(found)}

\* llm.invoke of the router prompt raises, or answers.
RouterOutcomes == {[exc |-> TRUE, value |-> ""], Returned("WEB"), Returned("CHAT")}

Contexts ==
    [vector_store : BOOLEAN,
     similarity_search : SearchOutcomes(<<"excerpt 1", "excerpt 2">>),
     router : RouterOutcomes,
     ddgs : SearchOutcomes(<<"- [title](link): body\n">>)]

\* No vector store, and a router that keeps the query in the chat.
NoContext ==
    [vector_store |-> FALSE, similarity_search |-> Returned(<<>>),
     router |-> Returned("CHAT"), ddgs |-> Returned(<<>>)]

RECURSIVE InitMessages(_)
InitMessages(n) ==
    IF n = 0 THEN <<>>
    ELSE Append(InitMessages(n - 1),
                [id |-> n,
                 text |-> IF n % 2 = 1 THEN UserText ELSE BotText,
                 sender |-> IF n % 2 = 1 THEN "user" ELSE "bot",
                 timestamp |-> n, chatSessionId |-> ChatId])

\* Calls of execute_emergency_trigger in the emergency specification.
MaxAlerts == 2

\* A new session, or one with InitCount messages; never summarized so far.
Init ==
    /\ db_sessions = [s \in {ChatId} |-> [summary |-> NoSummary]]
    /\ db_messages \in {InitMessages(0), InitMessages(InitCount)}
    /\ turn = [t \in Turns |-> IdleTurn]
    /\ alerts = <<>>
    /\ twilio_env \in BOOLEAN
    /\ history = NoResponse
    /\ upload = NoResponse

InitSummary ==
    /\ db_sessions = [s \in {ChatId} |-> [summary |-> NoSummary]]
    /\ db_messages = InitMessages(InitCount)
    /\ turn = [t \in Turns |-> IdleTurn]
    /\ alerts = <<>>
    /\ twilio_env = TRUE
    /\ history = NoResponse
    /\ upload = NoResponse

\* ----------------------------------------------- the summary specification
\* Concurrent requests on one session; the model answers "ok" in one chunk,
\* so no alert is scheduled and what interleaves is the summary.

NextSummary ==
    \/ \E t \in Turns : SendMessage(t, ChatId)
    \/ \E t \in Turns : FindSession(t, {PlainText}, {NoContext})
    \/ \E t \in Turns : StreamChunk(t, ChunkSizesWhole(turn[t].llm_rest))
    \/ \E t \in Turns : EndOfStream(t)
    \/ \E t \in Turns : SaveBot(t)
    \/ \E t \in Turns : SummaryRead(t)
    \/ \E t \in Turns : SummaryWrite(t)
    \/ \E t \in Turns : EndOfBody(t)
    \/ \E t \in Turns : EndOfTurn(t)

SpecSummary == InitSummary /\ [][NextSummary]_vars

\* --------------------------------------------- the streaming specification
\* One request; the model's text is split into chunks in every way.

NextStream ==
    \/ \E c \in {ChatId, UnknownChatId} : SendMessage(1, c)
    \/ FindSession(1, RichTexts, {NoContext})
    \/ StreamChunk(1, ChunkSizesFine(turn[1].llm_rest))
    \/ StreamError(1)
    \/ EndOfStream(1)
    \/ SaveBot(1)
    \/ SummaryRead(1)
    \/ SummaryWrite(1)
    \/ EndOfBody(1)
    \/ RunTask(1)
    \/ EndOfTurn(1)

SpecStream == Init /\ [][NextStream]_vars

\* ---------------------------------------------- the context specification
\* One request, with everything the vector store, the router and the web
\* search may do.

NextContext ==
    \/ \E c \in {ChatId, UnknownChatId} : SendMessage(1, c)
    \/ FindSession(1, {PlainText, CallText}, Contexts)
    \/ StreamChunk(1, ChunkSizesWhole(turn[1].llm_rest))
    \/ StreamError(1)
    \/ EndOfStream(1)
    \/ SaveBot(1)
    \/ SummaryRead(1)
    \/ SummaryWrite(1)
    \/ EndOfBody(1)
    \/ RunTask(1)
    \/ EndOfTurn(1)

SpecContext == Init /\ [][NextContext]_vars

\* ---------------------------------------------- the history specification
\* One send_message request, with the history read at any moment.

NextHistory ==
    \/ SendMessage(1, ChatId)
    \/ FindSession(1, {PlainText}, {NoContext})
    \/ StreamChunk(1, ChunkSizesWhole(turn[1].llm_rest))
    \/ EndOfStream(1)
    \/ SaveBot(1)
    \/ SummaryRead(1)
    \/ SummaryWrite(1)
    \/ EndOfBody(1)
    \/ EndOfTurn(1)
    \/ \E c \in {ChatId, UnknownChatId} : GetChatHistory(c)

SpecHistory == Init /\ [][NextHistory]_vars

\* ---------------------------------------------- the session specification
\* The requests of one session one after the other, each begun when the one
\* before is over, with PDF uploads in between.

EarlierTurnsOver(t) == \A u \in 1..(t - 1) : turn[u].pc \in {"done", "error"}

FileNames == {"report.pdf", "notes.txt"}

NextSession ==
    \/ \E t \in Turns : EarlierTurnsOver(t) /\ SendMessage(t, ChatId)
    \/ \E t \in Turns : FindSession(t, {PlainText}, {NoContext})
    \/ \E t \in Turns : StreamChunk(t, ChunkSizesWhole(turn[t].llm_rest))
    \/ \E t \in Turns : EndOfStream(t)
    \/ \E t \in Turns : SaveBot(t)
    \/ \E t \in Turns : SummaryRead(t)
    \/ \E t \in Turns : SummaryWrite(t)
    \/ \E t \in Turns : EndOfBody(t)
    \/ \E t \in Turns : EndOfTurn(t)
    \/ \E c \in {ChatId, UnknownChatId}, f \in FileNames : UploadPdf(c, f)

SpecSession == Init /\ [][NextSession]_vars

\* --------------------------------------------- the emergency specification
\* execute_emergency_trigger called over HTTP and by the two tools.

Locations == {"", "Ward 4"}

NextEmergency ==
    \/ \E sev \in Severities, loc \in Locations :
         Len(alerts) < MaxAlerts /\ HttpTrigger(sev, loc)
    \/ \E loc \in Locations : Len(alerts) < MaxAlerts /\ EmergencyCallTool(loc)
    \/ \E loc \in Locations : Len(alerts) < MaxAlerts /\ EmergencySmsTool(loc)
    \/ \E a \in 1..MaxAlerts : TwilioSms(a)
    \/ \E a \in 1..MaxAlerts : TwilioCall(a)

SpecEmergency == Init /\ [][NextEmergency]_vars

\* ================================================================== claims

\* Concat of what a turn has yielded: the text the caller has been sent.
Streamed(t) == Concat(turn[t].yielded)

HasMarker(text) ==
    Contains(text, SOS_CALL) \/ Contains(text, SOS_SMS) \/ Contains(text, SOS)

\* C1: the text streamed to the caller never holds "[SOS_CALL]", "[SOS_SMS]" or
\* "[SOS]", whatever the model's output and however it is split into chunks.
C1_StreamedTextHasNoMarker ==
    \A t \in Turns : ~HasMarker(Streamed(t))

\* The requests a turn has handed to background_tasks.add_task.
Scheduled(t) == turn[t].background_tasks

SchedulesSeverity(t, severity) ==
    \E i \in 1..Len(Scheduled(t)) : Scheduled(t)[i].severity = severity

\* The generator of turn t has returned.
GeneratorOver(t) == turn[t].pc \in {"tasks", "done"}

\* C2: a turn whose model stream was read to its end and whose raw output holds
\* "[SOS_CALL]" has scheduled a trigger_emergency task of severity "critical"
\* by the time its generator returns.
C2_CriticalMarkerSchedulesAlert ==
    \A t \in Turns :
        (/\ GeneratorOver(t)
         /\ turn[t].llm_rest = <<>>
         /\ Contains(turn[t].full_response_raw, SOS_CALL))
        => SchedulesSeverity(t, "critical")

\* The severity the claim gives for a raw text; "none" for no alert.
ClaimedSeverity(raw) ==
    CASE Contains(raw, SOS_CALL) -> "critical"
      [] ~Contains(raw, SOS_CALL) /\ Contains(raw, SOS_SMS) -> "medium"
      [] ~Contains(raw, SOS_CALL) /\ ~Contains(raw, SOS_SMS) /\ Contains(raw, SOS) -> "critical"
      [] OTHER -> "none"

\* C3: a turn schedules at most one alert; once the decision has been taken
\* (the bot message is stored), what is scheduled is what the raw text calls
\* for: critical for "[SOS_CALL]", else medium for "[SOS_SMS]", else critical
\* for "[SOS]", else nothing.  Before the decision nothing is scheduled.
C3_AlertDecisionFromRawText ==
    \A t \in Turns :
        /\ Len(Scheduled(t)) <= 1
        /\ ~turn[t].persisted => Scheduled(t) = <<>>
        /\ turn[t].persisted =>
             IF ClaimedSeverity(turn[t].full_response_raw) = "none"
             THEN Scheduled(t) = <<>>
             ELSE /\ Len(Scheduled(t)) = 1
                  /\ Scheduled(t)[1].severity = ClaimedSeverity(turn[t].full_response_raw)

\* C3 witness: the raw text holds both "[SOS_SMS]" and "[SOS_CALL]", the cleaned
\* text holds neither, and one critical alert is scheduled.
C3_Witness ==
    \E t \in Turns :
        /\ turn[t].persisted
        /\ Contains(turn[t].full_response_raw, SOS_SMS)
        /\ Contains(turn[t].full_response_raw, SOS_CALL)
        /\ ~HasMarker(turn[t].full_response_clean)
        /\ Len(Scheduled(t)) = 1
        /\ Scheduled(t)[1].severity = "critical"

\* update_summary of turn t has started: it is past its lookup.
SummaryStarted(t) ==
    \/ turn[t].pc = "summary_write"
    \/ turn[t].sorted_messages # <<>>
    \/ turn[t].summary_prompt # <<>>

\* trigger_emergency of turn t has started.
AlertStarted(t) ==
    \/ turn[t].tasks_run > 0
    \/ \E a \in 1..Len(alerts) : alerts[a].origin = FromTurn(t)

C9_UnknownSessionIs404 ==
    \A t \in Turns :
        (/\ turn[t].pc = "error"
         /\ turn[t].chat_id \notin DOMAIN db_sessions
         /\ turn[t].detail # StrOfException(StoreError))
        => /\ turn[t].status = 404
           /\ turn[t].detail = <<"Chat session not found">>

\* The rows of turn t's session, as a set; no row is ever deleted.
SessionRows(t) ==
    {db_messages[i] : i \in {j \in 1..Len(db_messages) :
                               db_messages[j].chatSessionId = turn[t].chat_id}}

\* seq lists every row of rows once, oldest first.
ListsOldestFirst(seq, rows) ==
    /\ Len(seq) = Cardinality(rows)
    /\ {seq[i] : i \in 1..Len(seq)} = rows
    /\ \A i \in 1..(Len(seq) - 1) : seq[i].timestamp <= seq[i + 1].timestamp

\* C10: once update_summary has read the session: with more than 5 messages the
\* model is given the messages in timestamp order without the 5 most recent,
\* and a summary that is stored is the model's answer to that; with 5 or fewer
\* the model is not called and the stored summary stays as it was.
C10_SummaryOfAllButLastFive ==
    \A t \in Turns :
        LET read == turn[t].sorted_messages
            n == Len(read)
        IN /\ read = <<>> => turn[t].summary_prompt = <<>> /\ turn[t].new_summary = <<>>
           /\ read # <<>> =>
                /\ ListsOldestFirst(read, SessionRows(t))
                /\ n > RecentCount =>
                     /\ turn[t].summary_prompt =
                            SummaryPrompt(ConversationText(SubSeq(read, 1, n - RecentCount)))
                     /\ turn[t].new_summary \in {<<>>, LlmInvoke(turn[t].summary_prompt)}
                     /\ db_sessions[ChatId].summary \in
                            {NoSummary, LlmInvoke(turn[t].summary_prompt)}
                /\ n <= RecentCount =>
                     /\ turn[t].summary_prompt = <<>>
                     /\ turn[t].new_summary = <<>>
                     /\ db_sessions[ChatId].summary = NoSummary

\* C10 witness: a session of more than 5 messages whose stored summary is the
\* model's answer, the turn being over.
C10_Witness ==
    \E t \in Turns :
        /\ turn[t].pc = "done"
        /\ Len(turn[t].sorted_messages) > RecentCount
        /\ db_sessions[ChatId].summary = LlmInvoke(turn[t].summary_prompt)

\* C4: a voice call is attempted only for severity "critical" and only once
\* the SMS of the same alert has been sent; an alert of any other severity
\* that has run has had its SMS attempted and no call.
C4_CallOnlyCriticalAfterSms ==
    \A a \in 1..Len(alerts) :
        /\ (alerts[a].call # "none" \/ alerts[a].thread = "call") =>
             alerts[a].severity = "critical" /\ alerts[a].sms = "sent"
        /\ (alerts[a].severity # "critical" /\ alerts[a].thread = "done") =>
             alerts[a].sms # "none" /\ alerts[a].call = "none"

\* C4 witness: a critical alert whose call was placed and a medium alert that
\* ended with its SMS sent.
C4_Witness ==
    \E a, b \in 1..Len(alerts) :
        /\ alerts[a].severity = "critical" /\ alerts[a].call = "placed"
        /\ alerts[b].severity = "medium" /\ alerts[b].thread = "done"
        /\ alerts[b].sms = "sent"

\* C5: a critical alert triggered with the credentials present has had both its
\* SMS and its voice call attempted once its thread has ended.
C5_CriticalAttemptsSmsAndCall ==
    \A a \in 1..Len(alerts) :
        (/\ alerts[a].severity = "critical"
         /\ alerts[a].result = TRIGGERED
         /\ alerts[a].thread = "done")
        => alerts[a].sms # "none" /\ alerts[a].call # "none"

\* C6: execute_emergency_trigger returns with the thread only started (no SMS,
\* no call attempted yet), and what it returned depends on the credentials
\* alone: it is the same whether the SMS or the call later succeeds, fails or
\* never happens.
C6_ReturnsWithoutWaiting ==
    [][/\ \A a \in 1..Len(alerts) : alerts'[a].result = alerts[a].result
       /\ \A a \in (Len(alerts) + 1)..Len(alerts') :
            /\ alerts'[a].result = IF twilio_env THEN TRIGGERED ELSE MISSING
            /\ alerts'[a].thread \in {"sms", "none"}
            /\ alerts'[a].sms = "none" /\ alerts'[a].call = "none"]_vars

\* C6 witness: two calls returned the same, one whose SMS then failed and one
\* whose SMS and call went through.
C6_Witness ==
    \E a, b \in 1..Len(alerts) :
        /\ alerts[a].result = TRIGGERED /\ alerts[b].result = TRIGGERED
        /\ alerts[a].sms = "failed" /\ alerts[a].thread = "done"
        /\ alerts[b].call = "placed"

\* Number of messages a stored summary was computed from: the lines of its
\* conversation text.
CoveredCount(summary) ==
    Cardinality({i \in 1..Len(summary) : summary[i] = "\n"})

\* C8: with concurrent requests on one session, a write of update_summary never
\* replaces the stored summary with one computed from fewer messages.
C8_SummaryNeverGoesStale ==
    [][CoveredCount(db_sessions'[ChatId].summary) >= CoveredCount(db_sessions[ChatId].summary)]_vars

\* The rows of a session, as a set.
RowsOf(chat_id) ==
    {db_messages[i] : i \in {j \in 1..Len(db_messages) :
                               db_messages[j].chatSessionId = chat_id}}

\* What get_chat_history must answer in the state it reads: every row of the
\* session once, oldest first, each as its text, sender and timestamp, with the
\* summary stored at that moment; 404 for an id no session has, 500 when the
\* store raises.
HistoryAnswerIsRight(h) ==
    \/ h.status = 500 /\ h.detail = StrOfException(StoreError)
    \/ /\ h.chat_id \notin DOMAIN db_sessions
       /\ h.status = 404
       /\ h.detail = <<"Chat session not found">>
    \/ /\ h.chat_id \in DOMAIN db_sessions
       /\ h.status = 200
       /\ ListsOldestFirst(h.sorted_messages, RowsOf(h.chat_id))
       /\ Len(h.messages) = Len(h.sorted_messages)
       /\ \A i \in 1..Len(h.messages) :
            /\ h.messages[i].text = h.sorted_messages[i].text
            /\ h.messages[i].sender = h.sorted_messages[i].sender
            /\ h.messages[i].timestamp = IsoFormat(h.sorted_messages[i].timestamp)
       /\ h.summary = db_sessions[h.chat_id].summary

\* C11: get_chat_history answers with every message of the session exactly
\* once, in non-decreasing timestamp order whatever the order the store gave
\* them in, and with the session's current summary; for an id no session has
\* it answers 404.
C11_HistorySortedCompleteWithSummary ==
    [][history' # history => HistoryAnswerIsRight(history')]_vars

\* C11 witness: a history of more than 5 messages, two of them with the same
\* timestamp, answered with the summary a turn has stored.
C11_Witness ==
    /\ history.status = 200
    /\ Len(history.messages) > RecentCount
    /\ \E i \in 1..(Len(history.messages) - 1) :
         history.messages[i].timestamp = history.messages[i + 1].timestamp
    /\ history.summary # NoSummary

\* The search a turn made for context failed: the vector search raised, or
\* the web search raised or found nothing.
ContextFailed(t) ==
    /\ turn[t].gathered
    /\ \/ turn[t].similarity_search = "raised"
       \/ turn[t].web_search \in {"raised", "nothing"}

\* C12: a turn whose vector search raised, or whose web search raised or found
\* nothing, does not fail: it answers 200, its prompt is built with that
\* context empty, and what the model streams for it reaches the caller.
C12_ContextFailureKeepsTurn ==
    \A t \in Turns :
        ContextFailed(t) =>
            /\ turn[t].pc # "error"
            /\ turn[t].status = 200
            /\ turn[t].lc_messages # <<>>
            /\ turn[t].similarity_search = "raised" =>
                   turn[t].lc_messages.rag_context = <<>>
            /\ turn[t].web_search \in {"raised", "nothing"} =>
                   turn[t].lc_messages.web_context = <<>>
            /\ (GeneratorOver(t) /\ turn[t].llm_rest = <<>>) =>
                   /\ turn[t].full_response_raw # <<>>
                   /\ Concat(turn[t].yielded) = StripTokens(turn[t].full_response_raw)

\* C12 witness: both searches raised and the turn streamed its whole answer.
C12_Witness ==
    /\ turn[1].gathered
    /\ turn[1].similarity_search = "raised"
    /\ turn[1].web_search = "raised"
    /\ GeneratorOver(1)
    /\ turn[1].llm_rest = <<>>
    /\ turn[1].yielded # <<>>

\* The buffered output is long enough, or holds a "]".
PrefixComplete(text) == Len(text) > BufferLimit \/ Contains(text, <<"]">>)

\* The generator of turn t has left its loop over llm.stream.
StreamLeft(t) ==
    turn[t].pc \in {"persist", "summary", "summary_write", "gen_done", "tasks", "done"}

\* C13, as stated: once the stream has ended, by a flush at the threshold or
\* by the one at the end of the stream, the buffered prefix has been yielded
\* exactly once.
C13_PrefixFlushedExactlyOnce ==
    \A t \in Turns : StreamLeft(t) => turn[t].flushes = 1

\* Until the prefix is flushed nothing has been yielded, and everything the
\* model has delivered is in the buffer, which is short and has no "]"; the
\* flushed prefix starts with no blank.
Buffering(g) ==
    /\ g.flushes <= 1
    /\ (g.pc = "streaming" /\ ~g.checked_for_token) =>
           /\ g.flushes = 0
           /\ g.yielded = <<>>
           /\ g.buffer = g.full_response_raw
           /\ ~PrefixComplete(g.buffer)
    /\ (g.flushes = 1 /\ g.yielded[1] # <<>>) => ~IsSpace(g.yielded[1][1])

\* What one step does to what turn t has yielded.  content is what the step
\* takes from the model's stream.
YieldsOf(g, h) ==
    LET content == SubSeq(g.llm_rest, 1, Len(g.llm_rest) - Len(h.llm_rest))
        buffered == g.full_response_raw \o content
    IN  IF g.pc = "streaming" /\ h.pc = "streaming" /\ h.chunks = g.chunks + 1
        THEN IF content = <<>>
             THEN h.yielded = g.yielded /\ h.flushes = g.flushes
             ELSE IF g.checked_for_token
             THEN h.yielded = Append(g.yielded, content) /\ h.flushes = g.flushes
             ELSE IF PrefixComplete(buffered)
             THEN h.yielded = <<StripTokens(buffered)>> /\ h.flushes = 1
             ELSE h.yielded = <<>> /\ h.flushes = 0
        ELSE IF g.pc = "streaming" /\ h.pc = "persist"
                /\ ~g.checked_for_token /\ g.full_response_raw # <<>>
        THEN h.yielded = <<StripTokens(g.full_response_raw)>> /\ h.flushes = 1
        ELSE h.yielded = g.yielded /\ h.flushes = g.flushes

\* C13, amended: nothing is yielded before the buffered output is longer than
\* 15 characters or holds "]" or the stream has ended without raising; the
\* prefix is then yielded once, markers removed and leading whitespace
\* stripped, and every later chunk with content follows unchanged and in
\* order.  A stream with no content, or one that raises before the prefix is
\* complete, yields nothing at all.
C13_BufferThenForward ==
    /\ [](\A t \in Turns : Buffering(turn[t]))
    /\ [][\A t \in Turns : YieldsOf(turn[t], turn'[t])]_vars

\* C13 witness: a prefix flushed with its marker removed, and a later chunk
\* forwarded as it came, the last of three chunks.
C13_Witness ==
    /\ turn[1].chunks = 3
    /\ turn[1].flushes = 1
    /\ Len(turn[1].yielded) = 2
    /\ HasMarker(turn[1].full_response_raw)
    /\ ~HasMarker(turn[1].yielded[1])
    /\ turn[1].yielded[2] =
           SubSeq(turn[1].full_response_raw,
                  Len(turn[1].full_response_raw) - Len(turn[1].yielded[2]) + 1,
                  Len(turn[1].full_response_raw))

\* The model's stream of turn t was read to its end, and the generator is over.
StreamCompleted(t) == GeneratorOver(t) /\ turn[t].llm_rest = <<>>

\* C14, as stated: a turn whose model stream completed without error has
\* exactly one bot message persisted.
C14_ExactlyOneBotMessage ==
    \A t \in Turns : StreamCompleted(t) => Len(turn[t].bot_message_ids) = 1

BotRows(rows) == {i \in 1..Len(rows) : rows[i].sender = "bot"}

\* The bot message of turn t is in the store, with the text streamed to the
\* caller, and it got there after the last chunk.
BotMessageIsStreamedText(t) ==
    \A n \in 1..Len(turn[t].bot_message_ids) :
        /\ turn[t].pc \in {"summary", "summary_write", "gen_done", "tasks", "done"}
        /\ turn[t].llm_rest = <<>>
        /\ \E i \in BotRows(db_messages) :
             /\ db_messages[i].id = turn[t].bot_message_ids[n]
             /\ db_messages[i].chatSessionId = turn[t].chat_id
             /\ db_messages[i].text = Concat(turn[t].yielded)

\* Bot rows come into the store only as the bot messages of turns.
RECURSIVE StoredByTurns(_, _)
StoredByTurns(g, t) ==
    IF t = 0 THEN 0 ELSE Len(g[t].bot_message_ids) + StoredByTurns(g, t - 1)

\* C14, amended: a turn has at most one bot message persisted, and has one
\* when its stream completed and the store took the message; it is stored
\* after the last chunk was yielded, its text is the concatenation of the
\* chunks yielded, and full_response_clean is that concatenation throughout.
C14_OneCleanBotMessage ==
    /\ [](\A t \in Turns :
            /\ turn[t].full_response_clean = Concat(turn[t].yielded)
            /\ Len(turn[t].bot_message_ids) <= 1
            /\ turn[t].persisted <=> Len(turn[t].bot_message_ids) = 1
            /\ turn[t].pc \in {"summary", "summary_write"} => turn[t].persisted
            /\ BotMessageIsStreamedText(t))
    /\ [][Cardinality(BotRows(db_messages')) - Cardinality(BotRows(db_messages))
            = StoredByTurns(turn', MaxTurns) - StoredByTurns(turn, MaxTurns)]_vars

\* C14 witness: a bot message stored for a stream with a marker, yielded in
\* more than one chunk, its text not the raw text.
C14_Witness ==
    /\ StreamCompleted(1)
    /\ Len(turn[1].bot_message_ids) = 1
    /\ Len(turn[1].yielded) > 1
    /\ db_messages[Len(db_messages)].text = Concat(turn[1].yielded)
    /\ db_messages[Len(db_messages)].text # turn[1].full_response_raw

\* C15: when a turn builds its prompt, every message of the session is among
\* those the stored summary was computed from or among the recent messages
\* handed to the model as they are; a summary computed from n messages and r
\* recent messages can only account for n + r of them.
C15_EveryMessageInPrompt ==
    [][\A t \in Turns :
         (turn[t].pc = "find" /\ turn'[t].pc = "streaming") =>
             CoveredCount(turn'[t].lc_messages.system_summary)
                 + Len(turn'[t].lc_messages.recent)
             >= Cardinality(RowsOf(turn[t].chat_id))]_vars

====
